---- MODULE Spec2Model ----
(***************************************************************************)
(* A model of scripts/build_muf_rt.py: the MUF map builder.                *)
(*                                                                         *)
(* Spec      : one run of main() (fetch, decode, ingestion, array set-up,  *)
(*             first interpolation band).                                  *)
(* SpecWrite : one call of write_bmp(img, out) (pixel packing, the two     *)
(*             struct.pack calls).                                         *)
(*                                                                         *)
(* Numbers.  Longitudes, latitudes and MUF values are integers (degrees,   *)
(* MHz).  Times are integer epoch seconds.  Confidences are fixed point:   *)
(* ConfOne units make the float 1.0, so 0.5 is ConfOne \div 2.             *)
(***************************************************************************)
EXTENDS Integers, Sequences, FiniteSets, TLC

VARIABLES
    pc,        \* control point of the run
    failedAt,  \* the call that raised, "" while nothing has raised
    k,         \* args.k
    tz,        \* UTC offset of the host's local time zone, seconds east
    fs,        \* the output directory: final and temporary names -> content
    body,      \* what http_get returned
    raw,       \* the decoded feed
    now,       \* time.time() of line 122
    i,         \* index in raw of the record the ingestion loop is at
    pts,       \* the observations retained so far
    keptIdx,   \* for each element of pts, the index in raw it came from
    vals,      \* line 140
    out,       \* the field of line 150
    img,       \* write_bmp's image: [w, h, rgb]
    px,        \* write_bmp's pixel counter y*w+x
    rows,      \* write_bmp's bytearray
    hdr        \* write_bmp's 14-byte file header

vars == <<pc, failedAt, k, tz, fs, body, raw, now, i, pts, keptIdx, vals,
          out, img, px, rows, hdr>>

(***************************************************************************)
(* Bounds of the model.                                                    *)
(***************************************************************************)
MaxFeed == 2    \* records in a feed
MaxK == 2       \* args.k
GridCells == 2  \* args.grid_w * args.grid_h
MaxPixels == 4  \* pixels of an image (width * height)

(***************************************************************************)
(* Program constants.                                                      *)
(***************************************************************************)
FreshWindow == 3600
ConfOne == 10000
Percent == 100
ClipLo == 5
ClipHi == 35
RedMask == 63488
GreenMask == 2016
BlueMask == 31

(***************************************************************************)
(* JSON values, as json.loads hands them to the ingestion loop.  "absent"  *)
(* is a key the object does not have.  v is the number a "num" or a        *)
(* "numstr" (a numeric string such as "12") stands for; for an "iso"       *)
(* string ("2024-01-01T12:00:00Z") it is the epoch of the instant the      *)
(* string names when read as UTC.  "str" is a string that is neither.      *)
(***************************************************************************)
Absent == [t |-> "absent", v |-> 0]
Null == [t |-> "null", v |-> 0]
Str == [t |-> "str", v |-> 0]
Num(n) == [t |-> "num", v |-> n]
NumStr(n) == [t |-> "numstr", v |-> n]
Iso(u) == [t |-> "iso", v |-> u]

Station(t, lon, lat) == [t |-> t, longitude |-> lon, latitude |-> lat]
Rec(st, mufd, time, conf) ==
    [station |-> st, mufd |-> mufd, time |-> time, confidence |-> conf]

(***************************************************************************)
(* The inputs the model draws.                                             *)
(***************************************************************************)
NowValues == {1000000}
TzOffsets == {-18000, 0, 7200}
KValues == 1..MaxK

GoodStation == Station("obj", Num(10), Num(20))
StationVals ==
    { Station("absent", Absent, Absent),
      Station("null", Absent, Absent),
      Station("obj", Absent, Num(20)),
      Station("obj", Str, Num(20)),
      Station("obj", NumStr(10), Null) }
MufVals == { Num(3), Num(1000), NumStr(20), Absent, Str }
TimeVals ==
    UNION { { Num(n - (FreshWindow - 1)), Num(n - FreshWindow),
              Num(n - (FreshWindow + 1)), Iso(n - 60),
              Iso(n - (FreshWindow + 1)) } : n \in NowValues }
    \cup { Absent, Null, Str }
ConfVals ==
    { Null, Str, Num(ConfOne \div 2), Num(ConfOne), Num(50 * ConfOne),
      Num(100 * ConfOne), Num(150 * ConfOne), Num(0 - (ConfOne \div 2)) }
FreshTimes == { Num(n - 60) : n \in NowValues }
StaleTimes == { Num(n - (FreshWindow + 1)) : n \in NowValues }

Records ==
    { Rec(GoodStation, Num(20), t, Absent) : t \in FreshTimes \cup TimeVals }
    \cup { Rec(s, Num(20), t, Absent) : s \in StationVals, t \in FreshTimes }
    \cup { Rec(GoodStation, m, t, Absent) : m \in MufVals, t \in FreshTimes }
    \cup { Rec(GoodStation, Num(20), t, c) : c \in ConfVals, t \in FreshTimes }
    \cup { Rec(GoodStation, Num(20), t, Str) : t \in StaleTimes }
    \cup { Rec(GoodStation, Str, t, Null) : t \in FreshTimes }

SeqsUpTo(S, n) == UNION { [1..m -> S] : m \in 0..n }
Feeds == SeqsUpTo(Records, MaxFeed)
Garbage == [json |-> FALSE, feed |-> <<>>]
Bodies == { Garbage } \cup { [json |-> TRUE, feed |-> f] : f \in Feeds }

(***************************************************************************)
(* The output directory.  A name holds "absent", "old" (the complete file  *)
(* a previous run left there) or bytes written by this run.                *)
(***************************************************************************)
Names == { "bmp", "bmp.z", "bmp.tmp", "bmp.z.tmp" }
NoFiles == [n \in Names |-> "absent"]
PreviousRun == [n \in Names |-> IF n \in {"bmp", "bmp.z"} THEN "old" ELSE "absent"]

(***************************************************************************)
(* main, lines 121-136: ingestion.                                         *)
(***************************************************************************)
\* float(x): a number or a numeric string converts, anything else raises.
FloatOk(j) == j.t \in {"num", "numstr"}

\* lines 126-132: st=r.get("station",{}); float(st["longitude"]),
\* float(st["latitude"]), float(r["mufd"]) inside try / bare except.
CoordsOk(r) ==
    /\ r.station.t = "obj"
    /\ FloatOk(r.station.longitude)
    /\ FloatOk(r.station.latitude)
    /\ FloatOk(r.mufd)

\* lines 27-33.  A number is returned as is.  Of a string, the "Z" is
\* removed and the rest parsed by fromisoformat into a datetime with no
\* time zone, whose timestamp() reads it as the host's local time: the
\* instant it names lies tz seconds before the one the string names in UTC.
\* Whatever makes the try block raise (None, a string that is no date)
\* gives 0.0.
parse_time(ts) ==
    CASE ts.t = "num" -> ts.v
      [] ts.t = "iso" -> ts.v - tz
      [] OTHER -> 0

\* line 133 with the comparison >= in place of >.
TooOldStrict(t) == now - t >= FreshWindow
\* line 133, now-parse_time(r.get("time"))>3600: the record is skipped when
\* this is true.
TooOld(t) == now - t > FreshWindow

\* line 134: float(r.get("confidence",1)) raises for None and for a string
\* that is no number; it is outside the try block.
ConfFloatOk(c) == c.t = "absent" \/ FloatOk(c)
ConfFloat(c) == IF c.t = "absent" THEN ConfOne ELSE c.v

\* line 135 with the comparison >= in place of >.
RescaleAtOne(conf) == IF conf >= ConfOne THEN conf \div Percent ELSE conf
\* line 135: if conf>1: conf/=100
Rescale(conf) == IF conf > ConfOne THEN conf \div Percent ELSE conf

Obs(r) ==
    [lon |-> r.station.longitude.v, lat |-> r.station.latitude.v,
     muf |-> r.mufd.v, conf |-> Rescale(ConfFloat(r.confidence))]

(***************************************************************************)
(* main, lines 138-169: the arrays and the first row band.                 *)
(***************************************************************************)
\* line 140: np.log(np.clip(muf,5,35)); the logarithm is kept symbolic.
Clip(x, lo, hi) == IF x < lo THEN lo ELSE IF x > hi THEN hi ELSE x
Ln(x) == [ln |-> x]

\* line 154, the fourth argument None*lonsr+latsr: multiplying a float
\* array by None raises TypeError as soon as the array has an element.
NoneTimesOk(n) == n = 0

\* line 155, np.argpartition(d,args.k-1,axis=2): kth must index the axis of
\* the n observations, else ValueError.
ArgPartitionOk(n, kth) == kth < n

(***************************************************************************)
(* The run of main.                                                        *)
(***************************************************************************)
NoImage == [w |-> 0, h |-> 0, rgb |-> <<>>]

Init ==
    /\ pc = "fetch"
    /\ failedAt = ""
    /\ k \in KValues
    /\ tz \in TzOffsets
    /\ fs \in {NoFiles, PreviousRun}
    /\ body = Garbage
    /\ raw = <<>>
    /\ now = 0
    /\ i = 0
    /\ pts = <<>>
    /\ keptIdx = <<>>
    /\ vals = <<>>
    /\ out = <<>>
    /\ img = NoImage
    /\ px = 0
    /\ rows = <<>>
    /\ hdr = <<>>

\* An exception nothing catches: the process exits non-zero.
Raise(site) ==
    /\ pc' = "aborted"
    /\ failedAt' = site

\* line 121, http_get(KC2G_URL): the bytes of the reply, or an exception of
\* urlopen (unreachable host, timeout).
HttpGet ==
    /\ pc = "fetch"
    /\ \/ /\ Raise("http_get")
          /\ UNCHANGED body
       \/ /\ \E b \in Bodies : body' = b
          /\ pc' = "decode"
          /\ UNCHANGED failedAt
    /\ UNCHANGED <<k, tz, fs, raw, now, i, pts, keptIdx, vals, out, img, px,
                   rows, hdr>>

\* lines 121-124: json.loads, then now=time.time() and pts=[].
JsonLoads ==
    /\ pc = "decode"
    /\ IF body.json
          THEN /\ raw' = body.feed
               /\ now' \in NowValues
               /\ i' = 1
               /\ pc' = "ingest"
               /\ UNCHANGED failedAt
          ELSE /\ Raise("json.loads")
               /\ UNCHANGED <<raw, now, i>>
    /\ UNCHANGED <<k, tz, fs, body, pts, keptIdx, vals, out, img, px, rows,
                   hdr>>

\* lines 125-136: one iteration of the loop over raw.
IngestRecord ==
    /\ pc = "ingest"
    /\ i <= Len(raw)
    /\ LET r == raw[i] IN
       IF ~CoordsOk(r) \/ TooOld(parse_time(r.time))
          THEN /\ i' = i + 1
               /\ UNCHANGED <<pc, failedAt, pts, keptIdx>>
          ELSE IF ~ConfFloatOk(r.confidence)
                  THEN /\ Raise("float(confidence)")
                       /\ UNCHANGED <<i, pts, keptIdx>>
                  ELSE /\ pts' = Append(pts, Obs(r))
                       /\ keptIdx' = Append(keptIdx, i)
                       /\ i' = i + 1
                       /\ UNCHANGED <<pc, failedAt>>
    /\ UNCHANGED <<k, tz, fs, body, raw, now, vals, out, img, px, rows, hdr>>

\* lines 138-151: the arrays of the observations and the zero field.
BuildArrays ==
    /\ pc = "ingest"
    /\ i > Len(raw)
    /\ vals' = [m \in 1..Len(pts) |-> Ln(Clip(pts[m].muf, ClipLo, ClipHi))]
    /\ out' = [c \in 1..GridCells |-> 0]
    /\ pc' = "band"
    /\ UNCHANGED <<failedAt, k, tz, fs, body, raw, now, i, pts, keptIdx, img,
                   px, rows, hdr>>

\* lines 153-155, the first band (y = 0): the arguments of haversine_rad
\* are evaluated, then argpartition is called.  With args.k >= 1 one of the
\* two raises for every number of observations, so lines 156-181 are never
\* executed and the model has no step for them.
InterpolateBand ==
    /\ pc = "band"
    /\ ~NoneTimesOk(Len(pts)) \/ ~ArgPartitionOk(Len(pts), k - 1)
    /\ Raise(IF ~NoneTimesOk(Len(pts)) THEN "None*lonsr" ELSE "argpartition")
    /\ UNCHANGED <<k, tz, fs, body, raw, now, i, pts, keptIdx, vals, out, img,
                   px, rows, hdr>>

Next ==
    \/ HttpGet
    \/ JsonLoads
    \/ IngestRecord
    \/ BuildArrays
    \/ InterpolateBand

Spec == Init /\ [][Next]_vars

(***************************************************************************)
(* write_bmp, lines 86-98.                                                 *)
(***************************************************************************)
Pow2(n) == 2 ^ n
Shr(a, n) == a \div Pow2(n)
Shl(a, n) == a * Pow2(n)

RECURSIVE BitOr(_, _)
BitOr(a, b) ==
    IF a = 0 THEN b
    ELSE IF b = 0 THEN a
    ELSE (IF a % 2 = 1 \/ b % 2 = 1 THEN 1 ELSE 0) + 2 * BitOr(a \div 2, b \div 2)

RECURSIVE BitAnd(_, _)
BitAnd(a, b) ==
    IF a = 0 \/ b = 0 THEN 0
    ELSE (IF a % 2 = 1 /\ b % 2 = 1 THEN 1 ELSE 0) + 2 * BitAnd(a \div 2, b \div 2)

\* line 94 with the green field one bit too far left.
Pack565Shifted(r, g, b) == BitOr(BitOr(Shl(Shr(r, 3), 11), Shl(Shr(g, 2), 6)), Shr(b, 3))
\* line 94: v=((r>>3)<<11)|((g>>2)<<5)|(b>>3)
Pack565(r, g, b) == BitOr(BitOr(Shl(Shr(r, 3), 11), Shl(Shr(g, 2), 5)), Shr(b, 3))

\* struct.pack of one unsigned little-endian integer of n bytes.
RECURSIVE LE(_, _)
LE(n, v) == IF n = 0 THEN <<>> ELSE <<v % 256>> \o LE(n - 1, v \div 256)

\* struct.pack("<H",v) raises struct.error unless 0 <= v <= 0xFFFF.
FitsH(v) == v >= 0 /\ v < Pow2(16)

\* line 92: i=(y*w+x)*3
PixelOffset(w, h, x, y) == (y * w + x) * 3

\* line 96: struct.pack("<2sIHHI",b"BM",14+108+len(rows),0,0,122)
FileHeader(n) == <<66, 77>> \o LE(4, 14 + 108 + n) \o LE(2, 0) \o LE(2, 0) \o LE(4, 122)

\* lines 97-98: the format "<IiiHHIIiiIIIIII36sIII", one entry per item it
\* packs, and the values handed to struct.pack with it.
V4Format ==
    <<"I", "i", "i", "H", "H", "I", "I", "i", "i", "I", "I", "I", "I", "I",
      "I", "36s", "I", "I", "I">>
V4Values(w, h, n) ==
    <<108, w, 0 - h, 1, 16, 3, n, 0, 0, 0, 0, RedMask, GreenMask, BlueMask, 0,
      1934772034, "36 zero bytes", 0, 0, 0>>

\* struct.pack raises struct.error unless it is handed exactly one value
\* for each item of the format.
StructPackOk(fmt, values) == Len(fmt) = Len(values)

\* img.convert("RGB").tobytes(): three bytes a pixel, rows top to bottom.
PixelSamples ==
    { <<0, 0, 0>>, <<255, 255, 255>>, <<7, 3, 7>>, <<8, 4, 8>>, <<200, 100, 50>> }
ToBytes(w, h, pix) ==
    [j \in 1..(3 * w * h) |-> pix[((j - 1) \div 3) + 1][((j - 1) % 3) + 1]]
Shapes == { wh \in (1..MaxPixels) \X (1..MaxPixels) : wh[1] * wh[2] <= MaxPixels }
Images ==
    UNION { { [w |-> wh[1], h |-> wh[2], rgb |-> ToBytes(wh[1], wh[2], pix)] :
                pix \in [1..(wh[1] * wh[2]) -> PixelSamples] } :
            wh \in Shapes }

InitWrite ==
    /\ pc = "rows"
    /\ failedAt = ""
    /\ k = 1
    /\ tz = 0
    /\ fs \in {NoFiles, PreviousRun}
    /\ body = Garbage
    /\ raw = <<>>
    /\ now = 0
    /\ i = 0
    /\ pts = <<>>
    /\ keptIdx = <<>>
    /\ vals = <<>>
    /\ out = <<>>
    /\ img \in Images
    /\ px = [x |-> 0, y |-> 0]
    /\ rows = <<>>
    /\ hdr = <<>>

\* lines 90-95: one iteration of the inner loop.
PackPixel ==
    /\ pc = "rows"
    /\ px.y < img.h
    /\ LET o == PixelOffset(img.w, img.h, px.x, px.y)
           v == Pack565(img.rgb[o + 1], img.rgb[o + 2], img.rgb[o + 3])
       IN IF FitsH(v)
             THEN /\ rows' = rows \o LE(2, v)
                  /\ px' = IF px.x + 1 < img.w
                              THEN [x |-> px.x + 1, y |-> px.y]
                              ELSE [x |-> 0, y |-> px.y + 1]
                  /\ UNCHANGED <<pc, failedAt>>
             ELSE /\ Raise("struct.pack(<H)")
                  /\ UNCHANGED <<rows, px>>
    /\ UNCHANGED <<k, tz, fs, body, raw, now, i, pts, keptIdx, vals, out, img,
                   hdr>>

\* line 96
PackFileHeader ==
    /\ pc = "rows"
    /\ px.y = img.h
    /\ hdr' = FileHeader(Len(rows))
    /\ pc' = "v4"
    /\ UNCHANGED <<failedAt, k, tz, fs, body, raw, now, i, pts, keptIdx, vals,
                   out, img, px, rows>>

\* lines 97-98: the format names 19 items and 20 values are given, so
\* struct.pack raises struct.error; lines 99-103 (the two temporary files
\* and the two os.replace calls) are never executed and the model has no
\* step for them.
PackInfoHeader ==
    /\ pc = "v4"
    /\ ~StructPackOk(V4Format, V4Values(img.w, img.h, Len(rows)))
    /\ Raise("struct.pack(v4)")
    /\ UNCHANGED <<k, tz, fs, body, raw, now, i, pts, keptIdx, vals, out, img,
                   px, rows, hdr>>

NextWrite ==
    \/ PackPixel
    \/ PackFileHeader
    \/ PackInfoHeader

SpecWrite == InitWrite /\ [][NextWrite]_vars

(***************************************************************************)
(* Properties.                                                             *)
(***************************************************************************)
\* The records of raw whose iteration of the ingestion loop is over: by
\* continue, by append, or by the exception that ended the run.
Finished(j) ==
    /\ j \in 1..Len(raw)
    /\ \/ j < i
       \/ pc = "aborted" /\ failedAt = "float(confidence)" /\ j = i
Retained(j) == \E m \in 1..Len(keptIdx) : keptIdx[m] = j
InterpolationRaised == pc = "aborted" /\ failedAt \in {"None*lonsr", "argpartition"}
Age(r) == now - r.time.v

\* Every run of main raises in the first band, whatever the number of
\* observations: there is no state of the band loop from which line 156
\* would be reached.
BandAlwaysRaises ==
    pc = "band" => ~NoneTimesOk(Len(pts)) \/ ~ArgPartitionOk(Len(pts), k - 1)

\* No step of main or of write_bmp that the code can reach creates, writes
\* or renames a file: the output directory stays as the run found it.
OutputDirUntouched == fs \in {NoFiles, PreviousRun}

\* C3: a run whose fetch and decoding succeeded and whose feed holds at
\* least k records, all valid and fresh, does not abort (it goes on to
\* write both files and to exit zero).
ValidFresh(r) ==
    /\ CoordsOk(r)
    /\ r.time.t = "num"
    /\ Age(r) <= FreshWindow
    /\ ConfFloatOk(r.confidence)
C3_RunSucceeds ==
    (/\ pc = "aborted"
     /\ failedAt \notin {"http_get", "json.loads"}
     /\ Len(raw) >= k
     /\ \A j \in 1..Len(raw) : ValidFresh(raw[j]))
    => FALSE

\* C4: a record malformed in one of its fields (station, longitude,
\* latitude, mufd, confidence, time) is dropped and the ingestion loop
\* raises no error.
Malformed(r) ==
    \/ ~CoordsOk(r)
    \/ ~ConfFloatOk(r.confidence)
    \/ r.time.t \in {"absent", "null", "str"}
C4_MalformedDropped ==
    /\ failedAt # "float(confidence)"
    /\ \A j \in 1..Len(raw) : Finished(j) /\ Malformed(raw[j]) => ~Retained(j)

\* C5: with fewer than k observations (none included) the interpolation
\* step does not abort the run.
C5_FewObservationsTolerated == ~(InterpolationRaised /\ Len(pts) < k)

C7_IsoReadAsUtc ==
    \A j \in 1..Len(raw) :
        Finished(j) /\ CoordsOk(raw[j]) /\ ConfFloatOk(raw[j].confidence)
        => /\ raw[j].time.t = "iso"
              => (Retained(j) <=> Age(raw[j]) <= FreshWindow)
           /\ raw[j].time.t \in {"absent", "null", "str"} => ~Retained(j)

\* The confidence stored for the observation pts[m], from the confidence c
\* its record reported: 1.0 when absent, c when c <= 1, c/100 when c > 1.
ConfAsClaimed(m) ==
    LET c == raw[keptIdx[m]].confidence IN
    /\ c.t = "absent" => pts[m].conf = ConfOne
    /\ c.t # "absent" /\ c.v <= ConfOne => pts[m].conf = c.v
    /\ c.t # "absent" /\ c.v > ConfOne => pts[m].conf * Percent = c.v
InUnit(x) == 0 <= x /\ x <= ConfOne

\* C8 as claimed: every retained observation has a confidence in [0,1],
\* derived from the reported one as stated.
C8_ConfidenceInUnit ==
    \A m \in 1..Len(pts) : ConfAsClaimed(m) /\ InUnit(pts[m].conf)

\* C8 as amended: every retained observation has the confidence derived
\* from the reported one as stated, and that confidence is in [0,1] when
\* the reported one is absent or lies in [0,100].
C8_ConfidenceInUnitForPercentages ==
    \A m \in 1..Len(pts) :
        LET c == raw[keptIdx[m]].confidence IN
        /\ ConfAsClaimed(m)
        /\ (c.t = "absent" \/ (0 <= c.v /\ c.v <= Percent * ConfOne))
           => InUnit(pts[m].conf)

\* C8: ingestion has retained an observation reported with confidence 50,
\* now 0.5, and one reported with 0.5, still 0.5.
C8_Witness ==
    /\ \E m \in 1..Len(pts) :
          /\ raw[keptIdx[m]].confidence = Num(50 * ConfOne)
          /\ pts[m].conf = ConfOne \div 2
    /\ \E m \in 1..Len(pts) :
          /\ raw[keptIdx[m]].confidence = Num(ConfOne \div 2)
          /\ pts[m].conf = ConfOne \div 2

\* C9: once the run has left the interpolation loop, every cell of the
\* field out holds a value within [5,35].
C9_FieldInRange ==
    InterpolationRaised
    => \A c \in 1..Len(out) : ClipLo <= out[c] /\ out[c] <= ClipHi

\* The pixel (x,y) of img, and the 16-bit value at index y*w+x of rows read
\* back with the masks of the header.
Channel(x, y, ch) == img.rgb[(y * img.w + x) * 3 + ch]
Stored(x, y) == rows[2 * (y * img.w + x) + 1] + 256 * rows[2 * (y * img.w + x) + 2]
Packed(x, y) == 2 * (y * img.w + x) + 2 <= Len(rows)
DecodeR(v) == Shl(Shr(BitAnd(v, RedMask), 11), 3)
DecodeG(v) == Shl(Shr(BitAnd(v, GreenMask), 5), 2)
DecodeB(v) == Shl(BitAnd(v, BlueMask), 3)
Within(orig, back, loss) == 0 <= orig - back /\ orig - back <= loss

\* C10: for every pixel (x,y) packed so far, the value stored at index
\* y*w+x, decoded with the masks 0xF800 / 0x07E0 / 0x001F, gives back r and
\* b to within 7 and g to within 3; the three fields are disjoint and fill
\* no more than 16 bits; no pixel makes struct.pack raise.
C10_RoundTrip565 ==
    /\ failedAt # "struct.pack(<H)"
    /\ \A x \in 0..(img.w - 1), y \in 0..(img.h - 1) :
          Packed(x, y) =>
             LET v == Stored(x, y) IN
             /\ Within(Channel(x, y, 1), DecodeR(v), 7)
             /\ Within(Channel(x, y, 2), DecodeG(v), 3)
             /\ Within(Channel(x, y, 3), DecodeB(v), 7)
             /\ v < Pow2(16)
             /\ v = BitAnd(v, RedMask) + BitAnd(v, GreenMask) + BitAnd(v, BlueMask)
             /\ BitAnd(v, RedMask) = Shl(Shr(Channel(x, y, 1), 3), 11)
             /\ BitAnd(v, GreenMask) = Shl(Shr(Channel(x, y, 2), 2), 5)
             /\ BitAnd(v, BlueMask) = Shr(Channel(x, y, 3), 3)

\* C10: all the pixels of a 2x2 image are packed, the last of them (7,3,7),
\* which reads back as (0,0,0): the full 5/6/5 loss.
C10_Witness ==
    /\ pc = "v4"
    /\ img.w = 2 /\ img.h = 2
    /\ Channel(1, 1, 1) = 7 /\ Channel(1, 1, 2) = 3 /\ Channel(1, 1, 3) = 7
    /\ Stored(1, 1) = 0
    /\ Channel(0, 1, 1) = 255 /\ DecodeR(Stored(0, 1)) = 248

====
